---------------------------- MODULE Spec2Model ----------------------------
(***************************************************************************)
(* Model of @mfdlabs/environment: Environment.getOrDefault, the typed      *)
(* coercion of a raw environment variable against a default value and an   *)
(* optional declared type, as written in the two index.ts sources of the   *)
(* repository, together with the override store the test-suite exercises.  *)
(*                                                                         *)
(* JavaScript values are records tagged by t; every tag has field names of *)
(* its own.  JavaScript strings are sequences of one-character strings, so *)
(* that splitting, trimming, parsing and printing are computed.            *)
(***************************************************************************)
EXTENDS Integers, Sequences, FiniteSets, TLC

(* ---------------------------- JavaScript values ------------------------ *)

Undefined == [t |-> "undefined"]
Null == [t |-> "null"]
NaN == [t |-> "number", nan |-> TRUE]
Bool(b) == [t |-> "boolean", b |-> b]
Num(n) == [t |-> "number", n |-> n]
Big(i) == [t |-> "bigint", i |-> i]
Str(s) == [t |-> "string", s |-> s]
Fn(ret, src) == [t |-> "function", ret |-> ret, src |-> src]
Arr(xs) == [t |-> "array", xs |-> xs]
Re(source, flags) == [t |-> "regexp", source |-> source, flags |-> flags]
Obj(ps) == [t |-> "object", ps |-> ps]
Throw(err) == [t |-> "throw", err |-> err]

IsThrow(v) == v.t = "throw"
IsNullish(v) == v.t \in {"undefined", "null"}

\* typeof v
TypeOf(v) ==
  CASE v.t = "undefined" -> "undefined"
    [] v.t \in {"null", "array", "regexp", "object"} -> "object"
    [] OTHER -> v.t

(* ------------------------------- strings ------------------------------- *)

Digits == <<"0", "1", "2", "3", "4", "5", "6", "7", "8", "9">>
IsDigit(c) == \E i \in 1..10 : Digits[i] = c
DigitOf(c) == (CHOOSE i \in 1..10 : Digits[i] = c) - 1
IsSpace(c) == c = " "

RECURSIVE TrimLeft(_)
TrimLeft(s) == IF s # <<>> /\ IsSpace(Head(s)) THEN TrimLeft(Tail(s)) ELSE s

RECURSIVE TrimRight(_)
TrimRight(s) ==
  IF s # <<>> /\ IsSpace(s[Len(s)]) THEN TrimRight(SubSeq(s, 1, Len(s) - 1)) ELSE s

\* String.prototype.trim
Trim(s) == TrimRight(TrimLeft(s))

LowerOf(c) ==
  CASE c = "T" -> "t" [] c = "R" -> "r" [] c = "U" -> "u" [] c = "E" -> "e"
    [] OTHER -> c

\* String.prototype.toLowerCase
ToLowerCase(s) == [i \in 1..Len(s) |-> LowerOf(s[i])]

RECURSIVE SplitFrom(_, _, _)
SplitFrom(s, sep, cur) ==
  IF s = <<>> THEN <<cur>>
  ELSE IF Head(s) = sep THEN <<cur>> \o SplitFrom(Tail(s), sep, <<>>)
  ELSE SplitFrom(Tail(s), sep, Append(cur, Head(s)))

\* String.prototype.split(','): the segments, one more than there are commas
Split(s) == SplitFrom(s, ",", <<>>)

RECURSIVE TakeDigits(_)
TakeDigits(s) ==
  IF s # <<>> /\ IsDigit(Head(s)) THEN <<Head(s)>> \o TakeDigits(Tail(s)) ELSE <<>>

RECURSIVE DecVal(_)
DecVal(ds) ==
  IF ds = <<>> THEN 0 ELSE DecVal(SubSeq(ds, 1, Len(ds) - 1)) * 10 + DigitOf(ds[Len(ds)])

RECURSIVE NatToStr(_)
NatToStr(n) == IF n < 10 THEN <<Digits[n + 1]>> ELSE Append(NatToStr(n \div 10), Digits[(n % 10) + 1])

IntToStr(n) == IF n < 0 THEN <<"-">> \o NatToStr(0 - n) ELSE NatToStr(n)

RECURSIVE JoinWith(_, _)
JoinWith(parts, sep) ==
  IF parts = <<>> THEN <<>>
  ELSE IF Len(parts) = 1 THEN parts[1]
  ELSE parts[1] \o sep \o JoinWith(Tail(parts), sep)

StartsWith(s, p) == Len(s) >= Len(p) /\ SubSeq(s, 1, Len(p)) = p
Drop(s, n) == SubSeq(s, n + 1, Len(s))


(* --------------------- JavaScript built-in conversions ----------------- *)

\* Function.prototype.call(null) with no arguments: the function's return value
Call(f) == f.ret

RECURSIVE toString(_)
\* v.toString() / String(v) for a non-nullish v; a nullish array element prints empty
toString(v) ==
  CASE v.t = "boolean" -> IF v.b THEN <<"t", "r", "u", "e">> ELSE <<"f", "a", "l", "s", "e">>
    [] v.t = "number" -> IF v = NaN THEN <<"N", "a", "N">> ELSE IntToStr(v.n)
    [] v.t = "bigint" -> IntToStr(v.i)
    [] v.t = "string" -> v.s
    [] v.t = "function" -> v.src
    [] v.t = "array" ->
         JoinWith([i \in 1..Len(v.xs) |->
                     IF IsNullish(v.xs[i]) THEN <<>> ELSE toString(v.xs[i])], <<",">>)
    [] v.t = "regexp" -> <<"/">> \o v.source \o <<"/">> \o v.flags
    [] v.t = "object" ->
         <<"[", "o", "b", "j", "e", "c", "t", " ", "O", "b", "j", "e", "c", "t", "]">>
    [] v.t = "undefined" -> <<"u", "n", "d", "e", "f", "i", "n", "e", "d">>
    [] OTHER -> <<"n", "u", "l", "l">>

\* parseFloat(x): x is a string value or undefined.  Leading white space is
\* skipped and the longest numeric prefix (sign, digits) is read; NaN without one.
parseFloat(x) ==
  LET s == TrimLeft(IF x.t = "string" THEN x.s ELSE toString(x))
      neg == s # <<>> /\ Head(s) = "-"
      body == IF s # <<>> /\ Head(s) \in {"-", "+"} THEN Tail(s) ELSE s
      ds == TakeDigits(body)
  IN  IF ds = <<>> THEN NaN
      ELSE Num(IF neg THEN 0 - DecVal(ds) ELSE DecVal(ds))

\* BigInt(x): x is a string value or undefined.  undefined is a TypeError; a
\* string is trimmed, the empty string is 0n, and anything but an optionally
\* signed run of digits is a SyntaxError.
BigInt(x) ==
  IF x.t # "string" THEN Throw("TypeError")
  ELSE LET s == Trim(x.s)
           neg == s # <<>> /\ Head(s) = "-"
           body == IF s # <<>> /\ Head(s) \in {"-", "+"} THEN Tail(s) ELSE s
       IN  IF s = <<>> THEN Big(0)
           ELSE IF body # <<>> /\ TakeDigits(body) = body
             THEN Big(IF neg THEN 0 - DecVal(body) ELSE DecVal(body))
           ELSE Throw("SyntaxError")

RECURSIVE ParenDepth(_, _)
\* -1 when a ")" closes nothing, otherwise the number of "(" left open
ParenDepth(s, d) ==
  IF s = <<>> THEN d
  ELSE IF Head(s) = "(" THEN ParenDepth(Tail(s), d + 1)
  ELSE IF Head(s) = ")" THEN (IF d = 0 THEN 0 - 1 ELSE ParenDepth(Tail(s), d - 1))
  ELSE ParenDepth(Tail(s), d)

\* Whether the text is a well-formed pattern source (groups are balanced)
ValidPattern(s) == ParenDepth(s, 0) = 0

\* obj.source and obj.flags: a TypeError on null and undefined, undefined on
\* every value that is not a RegExp
PropSource(d) ==
  IF IsNullish(d) THEN Throw("TypeError")
  ELSE IF d.t = "regexp" THEN Str(d.source) ELSE Undefined

PropFlags(d) ==
  IF IsNullish(d) THEN Throw("TypeError")
  ELSE IF d.t = "regexp" THEN Str(d.flags) ELSE Undefined

\* new RegExp(pattern, flags): pattern and flags are string values or undefined
NewRegExp(pattern, flags) ==
  LET src == IF pattern.t = "string" THEN pattern.s ELSE <<>>
      fl == IF flags.t = "string" THEN flags.s ELSE <<>>
  IN  IF ~ValidPattern(src) THEN Throw("SyntaxError")
      ELSE Re(IF src = <<>> THEN <<"(", "?", ":", ")">> ELSE src, fl)

(* --------------------------------- JSON -------------------------------- *)

JsonFail == [ok |-> FALSE]
JsonOk(v, rest) == [ok |-> TRUE, v |-> v, rest |-> rest]

RECURSIVE TakeUntilQuote(_)
\* the characters before the closing quote (no escapes occur in the texts used)
TakeUntilQuote(s) ==
  IF s = <<>> \/ Head(s) = "\"" THEN <<>> ELSE <<Head(s)>> \o TakeUntilQuote(Tail(s))

\* s starts after the opening quote
JsonString(s) ==
  LET body == TakeUntilQuote(s)
  IN  IF Len(body) = Len(s) THEN JsonFail ELSE JsonOk(Str(body), Drop(s, Len(body) + 1))

\* -?(0|[1-9][0-9]*)
JsonNumber(s) ==
  LET neg == Head(s) = "-"
      body == IF neg THEN Tail(s) ELSE s
      ds == TakeDigits(body)
  IN  IF ds = <<>> \/ (Len(ds) > 1 /\ Head(ds) = "0") THEN JsonFail
      ELSE JsonOk(Num(IF neg THEN 0 - DecVal(ds) ELSE DecVal(ds)), Drop(body, Len(ds)))

RECURSIVE JsonValue(_)
RECURSIVE JsonMembers(_, _)
RECURSIVE JsonElements(_, _)

\* s starts at a member's key; acc holds the members read so far
JsonMembers(s0, acc) ==
  LET s == TrimLeft(s0)
  IN  IF s = <<>> \/ Head(s) # "\"" THEN JsonFail
      ELSE LET k == JsonString(Tail(s))
           IN  IF ~k.ok THEN JsonFail
               ELSE LET s1 == TrimLeft(k.rest)
                    IN  IF s1 = <<>> \/ Head(s1) # ":" THEN JsonFail
                        ELSE LET v == JsonValue(Tail(s1))
                             IN  IF ~v.ok THEN JsonFail
                                 ELSE LET s2 == TrimLeft(v.rest)
                                          acc2 == Append(acc, <<k.v.s, v.v>>)
                                      IN  IF s2 = <<>> THEN JsonFail
                                          ELSE IF Head(s2) = "}" THEN JsonOk(Obj(acc2), Tail(s2))
                                          ELSE IF Head(s2) = "," THEN JsonMembers(Tail(s2), acc2)
                                          ELSE JsonFail

\* s starts at an element; acc holds the elements read so far
JsonElements(s0, acc) ==
  LET v == JsonValue(s0)
  IN  IF ~v.ok THEN JsonFail
      ELSE LET s2 == TrimLeft(v.rest)
               acc2 == Append(acc, v.v)
           IN  IF s2 = <<>> THEN JsonFail
               ELSE IF Head(s2) = "]" THEN JsonOk(Arr(acc2), Tail(s2))
               ELSE IF Head(s2) = "," THEN JsonElements(Tail(s2), acc2)
               ELSE JsonFail

JsonValue(s0) ==
  LET s == TrimLeft(s0)
  IN  IF s = <<>> THEN JsonFail
      ELSE IF StartsWith(s, <<"n", "u", "l", "l">>) THEN JsonOk(Null, Drop(s, 4))
      ELSE IF StartsWith(s, <<"t", "r", "u", "e">>) THEN JsonOk(Bool(TRUE), Drop(s, 4))
      ELSE IF StartsWith(s, <<"f", "a", "l", "s", "e">>) THEN JsonOk(Bool(FALSE), Drop(s, 5))
      ELSE IF Head(s) = "\"" THEN JsonString(Tail(s))
      ELSE IF Head(s) = "-" \/ IsDigit(Head(s)) THEN JsonNumber(s)
      ELSE IF Head(s) = "{" THEN
        (IF TrimLeft(Tail(s)) # <<>> /\ Head(TrimLeft(Tail(s))) = "}"
           THEN JsonOk(Obj(<<>>), Tail(TrimLeft(Tail(s))))
           ELSE JsonMembers(Tail(s), <<>>))
      ELSE IF Head(s) = "[" THEN
        (IF TrimLeft(Tail(s)) # <<>> /\ Head(TrimLeft(Tail(s))) = "]"
           THEN JsonOk(Arr(<<>>), Tail(TrimLeft(Tail(s))))
           ELSE JsonElements(Tail(s), <<>>))
      ELSE JsonFail

\* JSON.parse(x): x is a string value or undefined (which reads as the text
\* "undefined"); a SyntaxError unless the whole text is one JSON value
JSONparse(x) ==
  LET r == JsonValue(IF x.t = "string" THEN x.s ELSE toString(x))
  IN  IF r.ok /\ TrimLeft(r.rest) = <<>> THEN r.v ELSE Throw("SyntaxError")

RECURSIVE HasBigInt(_)
HasBigInt(v) ==
  CASE v.t = "bigint" -> TRUE
    [] v.t = "array" -> \E i \in 1..Len(v.xs) : HasBigInt(v.xs[i])
    [] v.t = "object" -> \E i \in 1..Len(v.ps) : HasBigInt(v.ps[i][2])
    [] OTHER -> FALSE

\* Values JSON.stringify leaves out of an object and prints as null in an array
Unserializable(v) == v.t \in {"undefined", "function"}

Quoted(s) == <<"\"">> \o s \o <<"\"">>

RECURSIVE SelectSeqKept(_)
SelectSeqKept(ps) ==
  IF ps = <<>> THEN <<>>
  ELSE IF Unserializable(Head(ps)[2]) THEN SelectSeqKept(Tail(ps))
  ELSE <<Head(ps)>> \o SelectSeqKept(Tail(ps))

RECURSIVE JsonText(_)
\* the text of a value that is neither unserializable nor holds a bigint
JsonText(v) ==
  CASE v.t = "null" -> <<"n", "u", "l", "l">>
    [] v.t = "boolean" -> toString(v)
    [] v.t = "number" -> IF v = NaN THEN <<"n", "u", "l", "l">> ELSE IntToStr(v.n)
    [] v.t = "string" -> Quoted(v.s)
    [] v.t = "regexp" -> <<"{", "}">>
    [] v.t = "array" ->
         <<"[">> \o JoinWith([i \in 1..Len(v.xs) |->
                      IF Unserializable(v.xs[i]) THEN <<"n", "u", "l", "l">>
                      ELSE JsonText(v.xs[i])], <<",">>) \o <<"]">>
    [] v.t = "object" ->
         LET kept == SelectSeqKept(v.ps)
         IN  <<"{">> \o JoinWith([i \in 1..Len(kept) |->
                          Quoted(kept[i][1]) \o <<":">> \o JsonText(kept[i][2])], <<",">>)
             \o <<"}">>
    [] OTHER -> <<>>

\* JSON.stringify(v): a string value, undefined for undefined and functions,
\* a TypeError for a bigint anywhere in v
JSONstringify(v) ==
  IF HasBigInt(v) THEN Throw("TypeError")
  ELSE IF Unserializable(v) THEN Undefined
  ELSE Str(JsonText(v))

(* ---------------------------- type converters -------------------------- *)

\* typeConverters.toBoolean(value, defaultValue): the fallback when the raw
\* value is absent, otherwise whether the trimmed lower-cased text is a truthy token
toBoolean(value, defaultValue) ==
  IF value.t # "string" THEN defaultValue
  ELSE Bool(ToLowerCase(Trim(value.s)) \in {<<"t", "r", "u", "e">>, <<"1">>})

(* ------------------------- declared type literals ---------------------- *)

\* optionalType left out of the call
NoShape == "undefined"

\* EnvironmentVariableType of the array-aware source
EnvironmentVariableType == {"boolean", "number", "bigint", "object", "regexp", "string"}

ArrayLiteral(e) ==
  CASE e = "boolean" -> "array<boolean>" [] e = "number" -> "array<number>"
    [] e = "bigint" -> "array<bigint>" [] e = "object" -> "array<object>"
    [] e = "regexp" -> "array<regexp>" [] OTHER -> "array<string>"

\* EnvironmentVariableArrayType: `array<${EnvironmentVariableType}>`
EnvironmentVariableArrayType == {ArrayLiteral(e) : e \in EnvironmentVariableType}

\* EnvironmentVariableType of src/environment/index.ts
LegacyEnvironmentVariableType ==
  {"boolean", "number", "bigint", "array", "object", "regexp", "string"}

\* type.startsWith('array<')
StartsWithArray(type) == type \in EnvironmentVariableArrayType

\* type.replace('array<', '').replace('>', '')
ElementType(type) == CHOOSE e \in EnvironmentVariableType : ArrayLiteral(e) = type

(* ------------------------------ getOrDefault --------------------------- *)

Ret(v) == [v |-> v, calls |-> 0]

Present(value) == value.t = "string"
\* a raw value in a boolean context: absent and empty are falsy
Truthy(value) == value.t = "string" /\ value.s # <<>>

\* value ?? defaultValue?.toString()
RawOrDefaultText(value, defaultValue) ==
  IF Present(value) THEN value
  ELSE IF IsNullish(defaultValue) THEN Undefined
  ELSE Str(toString(defaultValue))

\* value?.split(',')
SplitRaw(value) == [i \in 1..Len(Split(value.s)) |-> Str(Split(value.s)[i])]

\* let type = optionalType ?? typeof defaultValue, and optionalType alone for a
\* null or undefined default
ResolveType(defaultValue, optionalType) ==
  IF IsNullish(defaultValue) THEN optionalType
  ELSE IF optionalType # NoShape THEN optionalType
  ELSE TypeOf(defaultValue)

\* let type = typeof defaultValue, and optionalType for a null or undefined default
LegacyResolveType(defaultValue, optionalType) ==
  IF IsNullish(defaultValue) THEN optionalType ELSE TypeOf(defaultValue)

CaseBoolean(value, defaultValue) == Ret(toBoolean(value, defaultValue))

\* CaseNumber with the operands of ?? swapped: the default wins over the raw value
CaseNumberDefaultFirst(value, defaultValue) ==
  Ret(parseFloat(IF IsNullish(defaultValue) THEN value ELSE Str(toString(defaultValue))))

CaseNumber(value, defaultValue) == Ret(parseFloat(RawOrDefaultText(value, defaultValue)))

CaseBigint(value, defaultValue) == Ret(BigInt(RawOrDefaultText(value, defaultValue)))

\* CaseFunction evaluating the default before looking at the raw value
CaseFunctionEager(value, defaultValue) ==
  IF Truthy(value) THEN [v |-> value, calls |-> 1] ELSE [v |-> Call(defaultValue), calls |-> 1]

\* (value as T) || defaultValue?.call(null)
CaseFunction(value, defaultValue) ==
  IF Truthy(value) THEN Ret(value)
  ELSE IF IsNullish(defaultValue) THEN Ret(Undefined)
  ELSE [v |-> Call(defaultValue), calls |-> 1]

\* the callbacks handed to typeConverters.toArray, one per element type
ElementCallback(arrayType, v) ==
  CASE arrayType = "boolean" -> toBoolean(v, Undefined)
    [] arrayType = "number" -> parseFloat(v)
    [] arrayType = "bigint" -> BigInt(v)
    [] arrayType = "object" -> JSONparse(v)
    [] OTHER -> NewRegExp(v, Undefined)

\* typeConverters.toArray(arr, converter): the converter applied to every
\* element in order; an element the converter throws on ends the call.  The
\* converter is one of getOrDefault's element callbacks, named by its element type.
toArray(arr, converter) ==
  LET mapped == [i \in 1..Len(arr) |-> ElementCallback(converter, arr[i])]
      bad == {i \in 1..Len(arr) : IsThrow(mapped[i])}
  IN  IF bad # {} THEN mapped[CHOOSE i \in bad : \A j \in bad : i <= j]
      ELSE Arr(mapped)


\* CaseArray returning the split strings without converting the elements
CaseArrayUnconverted(value, defaultValue, arrayType) ==
  IF ~Present(value) THEN Ret(defaultValue) ELSE Ret(Arr(SplitRaw(value)))

CaseArray(value, defaultValue, arrayType) ==
  IF ~Present(value) THEN Ret(defaultValue)
  ELSE LET arr == SplitRaw(value)
       IN  CASE arrayType = "boolean" -> Ret(toArray(arr, "boolean"))
             [] arrayType = "number" -> Ret(toArray(arr, "number"))
             [] arrayType = "bigint" -> Ret(toArray(arr, "bigint"))
             [] arrayType = "object" -> Ret(toArray(arr, "object"))
             [] arrayType = "regexp" -> Ret(toArray(arr, "regexp"))
             [] OTHER -> Ret(Arr(arr))

\* new RegExp(value ?? defaultValue.source, defaultValue.flags)
CaseRegexp(value, defaultValue) ==
  LET pattern == IF Present(value) THEN value ELSE PropSource(defaultValue)
      flags == PropFlags(defaultValue)
  IN  IF IsThrow(pattern) THEN Ret(pattern)
      ELSE IF IsThrow(flags) THEN Ret(flags)
      ELSE Ret(NewRegExp(pattern, flags))

\* value?.split(',') ?? defaultValue
SplitOrDefault(value, defaultValue) ==
  IF Present(value) THEN Ret(Arr(SplitRaw(value))) ELSE Ret(defaultValue)

\* JSON.parse(value ?? JSON.stringify(defaultValue))
ParseOrRoundTrip(value, defaultValue) ==
  IF Present(value) THEN Ret(JSONparse(value))
  ELSE LET text == JSONstringify(defaultValue)
       IN  IF IsThrow(text) THEN Ret(text) ELSE Ret(JSONparse(text))

\* JSON.parse(value ?? defaultValue?.toString())
LegacyCaseObject(value, defaultValue) ==
  Ret(JSONparse(RawOrDefaultText(value, defaultValue)))

\* RawOrDefault with ?? in place of ||: an empty raw string is returned as it is
RawOrDefaultNullish(value, defaultValue) ==
  IF Present(value) THEN Ret(value) ELSE Ret(defaultValue)

\* (value as T) || (defaultValue as T)
RawOrDefault(value, defaultValue) == IF Truthy(value) THEN Ret(value) ELSE Ret(defaultValue)

\* the default: branch of the array-aware source
CaseDefault(value, defaultValue, type) ==
  IF defaultValue.t = "array" THEN SplitOrDefault(value, defaultValue)
  ELSE IF defaultValue.t = "regexp" THEN CaseRegexp(value, defaultValue)
  ELSE IF type = "object" THEN ParseOrRoundTrip(value, defaultValue)
  ELSE RawOrDefault(value, defaultValue)

\* the default: branch of src/environment/index.ts
LegacyCaseDefault(value, defaultValue) ==
  IF defaultValue.t = "array" THEN SplitOrDefault(value, defaultValue)
  ELSE IF defaultValue.t = "regexp" THEN CaseRegexp(value, defaultValue)
  ELSE IF TypeOf(defaultValue) = "object" THEN ParseOrRoundTrip(value, defaultValue)
  ELSE RawOrDefault(value, defaultValue)

\* Environment.getOrDefault of the array-aware source, on the raw value read
\* from process.env[key]
getOrDefault(value, defaultValue, optionalType) ==
  LET resolved == ResolveType(defaultValue, optionalType)
  IN  IF resolved = NoShape THEN Ret(Throw("TypeError"))
      ELSE LET isArray == StartsWithArray(resolved)
               arrayType == IF isArray THEN ElementType(resolved) ELSE NoShape
               type == IF isArray THEN "array" ELSE resolved
           IN  CASE type = "boolean" -> CaseBoolean(value, defaultValue)
                 [] type = "number" -> CaseNumber(value, defaultValue)
                 [] type = "bigint" -> CaseBigint(value, defaultValue)
                 [] type = "function" -> CaseFunction(value, defaultValue)
                 [] type = "array" -> CaseArray(value, defaultValue, arrayType)
                 [] type = "regexp" -> CaseRegexp(value, defaultValue)
                 [] OTHER -> CaseDefault(value, defaultValue, type)

\* Environment.getOrDefault of src/environment/index.ts
LegacyGetOrDefault(value, defaultValue, optionalType) ==
  LET type == LegacyResolveType(defaultValue, optionalType)
  IN  CASE type = "boolean" -> CaseBoolean(value, defaultValue)
        [] type = "number" -> CaseNumber(value, defaultValue)
        [] type = "bigint" -> CaseBigint(value, defaultValue)
        [] type = "function" -> CaseFunction(value, defaultValue)
        [] type = "array" -> SplitOrDefault(value, defaultValue)
        [] type = "object" -> LegacyCaseObject(value, defaultValue)
        [] type = "regexp" -> CaseRegexp(value, defaultValue)
        [] OTHER -> LegacyCaseDefault(value, defaultValue)

(* ----------------------------- override store -------------------------- *)

\* the entry of a key that has no override
NotOverridden == [t |-> "absent"]

\* isVariableOverridden(key)
isVariableOverridden(store, key) == store[key] # NotOverridden

\* getOverridenVariable(key)
getOverridenVariable(store, key) ==
  IF isVariableOverridden(store, key) THEN store[key] ELSE Undefined

\* Resolve never consulting the store
ResolveIgnoringStore(store, key, coerced) == coerced

\* getOrDefault as the test-suite exercises it: a live override is returned as
\* stored, before the environment is read
Resolve(store, key, coerced) ==
  IF isVariableOverridden(store, key) THEN Ret(getOverridenVariable(store, key))
  ELSE coerced

(* ------------------------------- input sets ---------------------------- *)

\* longest generated raw string
MaxLen == 2

Keys == {"FOO_BAR", "FOO_BAR_BEZ"}

GenChars == {"1", "-", ",", "(", " "}

GeneratedRaws == UNION {[1..n -> GenChars] : n \in 0..MaxLen}

TestRaws ==
  { <<"t", "r", "u", "e">>, <<" ", "T", "R", "U", "E", " ">>, <<"f", "a", "l", "s", "e">>,
    <<"0">>, <<"x">>, <<"1", ",", "2", ",", "3">>,
    <<"t", "r", "u", "e", ",", "f", "a", "l", "s", "e">>,
    <<"^", "f", "o", "o", "$">>, <<"^", "f", "o", "o", "$", ",", "^", "b", "a", "r", "$">>,
    <<"{", "\"", "f", "o", "o", "\"", ":", "\"", "b", "a", "r", "\"", "}">>,
    <<"{", "\"", "a", "\"", ":", "1", "}", ",", "{", "\"", "a", "\"", ":", "2", "}">>,
    <<"[", "1", ",", "2", "]">>, <<"n", "u", "l", "l">> }

RawStrings == GeneratedRaws \cup TestRaws

Foo == <<"f", "o", "o">>
Bar == <<"b", "a", "r">>
FooPattern == <<"^", "f", "o", "o", "$">>

DefaultValues ==
  { Undefined, Null, Bool(FALSE), Bool(TRUE), Num(0), Num(12), Num(0 - 3), Big(0), Big(1),
    Str(<<>>), Str(<<"d", "e", "f", "a", "u", "l", "t">>),
    Fn(Str(<<"0">>), <<"(", ")", " ", "=", ">", " ", "'", "0", "'">>),
    Fn(Num(7), <<"(", ")", " ", "=", ">", " ", "7">>),
    Arr(<<>>), Arr(<<Str(<<"0">>)>>), Arr(<<Num(3), Num(2), Num(1)>>),
    Re(FooPattern, <<>>), Re(<<"a">>, <<"g", "i">>),
    Obj(<<>>), Obj(<<<<Foo, Str(Bar)>>>>), Obj(<<<<Foo, Num(1)>>, <<Bar, Arr(<<Null>>)>>>>) }

Shapes == {NoShape} \cup EnvironmentVariableType \cup EnvironmentVariableArrayType
LegacyShapes == {NoShape} \cup LegacyEnvironmentVariableType

\* the inputs of the override life cycle
LifeRaws == {<<>>, <<"1">>, <<"x">>}
LifeDefaults == {Undefined, Num(0), Str(<<"d">>), Fn(Str(<<"0">>), <<"f">>), Arr(<<>>)}
LifeShapes == {NoShape, "number", "string"}
OverrideValues == {Num(2), Str(<<"t", "e", "s", "t">>), Bool(FALSE)}

(* --------------------------- container probes -------------------------- *)

\* process.platform values
Platforms == {"linux", "win32"}

\* the class the static methods are called on: Environment itself, or a class
\* that extends it as the README advises
Classes == {"Environment", "MyEnvironment"}

DockerEnvPath == "/.dockerenv"
CGroupPath == "/proc/self/cgroup"

Docker == <<"d", "o", "c", "k", "e", "r">>

\* what /proc/self/cgroup can hold, or the error reading it throws
CGroupStates ==
  { Str(<<"1", ":", "/">> \o Docker \o <<"/", "a">>), Str(Docker), Str(<<"D">> \o Tail(Docker)),
    Str(<<"d", "o", "c", "k">>), Str(<<"f", "o", "o">>), Str(<<>>),
    Throw("ENOENT"), Throw("EACCES") }

\* whether /.dockerenv is there, or cannot be looked at
DockerEnvStates == {"exists", "missing", "error"}

\* String.prototype.includes
Includes(s, sub) ==
  \E i \in 0..(Len(s) - Len(sub)) : SubSeq(s, i + 1, i + Len(sub)) = sub

\* fs.existsSync('/.dockerenv'): true for a path that is there, false for one
\* that is not and for every error
existsSync(fileSystem) == fileSystem.dockerenv = "exists"

\* fs.readFileSync('/proc/self/cgroup', 'utf8'): the text, or the error thrown
readFileSync(fileSystem) == fileSystem.cgroup

Probe(result, reads) == [result |-> result, reads |-> reads]

\* Environment.hasDockerEnv()
hasDockerEnv(platformName, fileSystem) ==
  IF platformName # "linux" THEN Probe(Bool(FALSE), <<>>)
  ELSE Probe(Bool(existsSync(fileSystem)), <<DockerEnvPath>>)

\* hasDockerCGroup without the try/catch: the error of the read escapes
hasDockerCGroupUncaught(platformName, fileSystem) ==
  IF platformName # "linux" THEN Probe(Bool(FALSE), <<>>)
  ELSE LET text == readFileSync(fileSystem)
       IN  IF IsThrow(text) THEN Probe(text, <<CGroupPath>>)
           ELSE Probe(Bool(Includes(text.s, Docker)), <<CGroupPath>>)

\* Environment.hasDockerCGroup()
hasDockerCGroup(platformName, fileSystem) ==
  IF platformName # "linux" THEN Probe(Bool(FALSE), <<>>)
  ELSE LET text == readFileSync(fileSystem)
       IN  IF IsThrow(text) THEN Probe(Bool(FALSE), <<CGroupPath>>)
           ELSE Probe(Bool(Includes(text.s, Docker)), <<CGroupPath>>)

\* this._isDocker read on a class: its own property, otherwise the one of the
\* class it extends
MemoSeenBy(memo, class) ==
  IF memo[class] # Undefined THEN memo[class] ELSE memo["Environment"]

\* ProbeBoth with && in place of ||
ProbeBothAnd(platformName, fileSystem) ==
  LET a == hasDockerEnv(platformName, fileSystem)
      b == hasDockerCGroup(platformName, fileSystem)
  IN  IF ~a.result.b THEN a ELSE Probe(b.result, a.reads \o b.reads)

\* this.hasDockerEnv() || this.hasDockerCGroup(): the second probe runs only
\* when the first is false
ProbeBoth(platformName, fileSystem) ==
  LET a == hasDockerEnv(platformName, fileSystem)
      b == hasDockerCGroup(platformName, fileSystem)
  IN  IF a.result.b THEN a ELSE Probe(b.result, a.reads \o b.reads)

\* isDocker with the platform test after the memo
isDockerMemoFirst(platformName, fileSystem, seen) ==
  IF seen = Undefined
    THEN LET both == ProbeBoth("linux", fileSystem)
         IN  [result |-> IF platformName = "linux" THEN both.result ELSE Bool(FALSE),
              reads |-> both.reads, store |-> both.result]
    ELSE [result |-> IF platformName = "linux" THEN seen ELSE Bool(FALSE),
          reads |-> <<>>, store |-> Undefined]

\* Environment.isDocker(): seen is this._isDocker as the called class reads it;
\* store is the value assigned to this._isDocker, undefined when none is
isDocker(platformName, fileSystem, seen) ==
  IF platformName # "linux" THEN [result |-> Bool(FALSE), reads |-> <<>>, store |-> Undefined]
  ELSE IF seen = Undefined
    THEN LET both == ProbeBoth(platformName, fileSystem)
         IN  [result |-> both.result, reads |-> both.reads, store |-> both.result]
    ELSE [result |-> seen, reads |-> <<>>, store |-> Undefined]

(* ------------------------------ state machine -------------------------- *)

VARIABLES
  env,        \* process.env: key -> raw string value, or undefined
  overrides,  \* the override store: key -> stored value, or NotOverridden
  removed,    \* history: the keys whose override has been removed
  pc,         \* "idle", or "returned" when a getOrDefault call has just ended
  call,       \* the arguments of that call and the source that ran it
  outcome,    \* what the call returned or threw, and how often it invoked the default
  platform,   \* process.platform
  files,      \* the file system: /.dockerenv and /proc/self/cgroup
  isDockerMemo, \* _isDocker: class -> the own static property, undefined when not set
  firstMemo,  \* history: the first value an isDocker call stored, undefined before
  probe       \* the container probe call that has just ended, and what it saw

coercionVars == <<env, overrides, removed, call, outcome>>
dockerVars == <<platform, files, isDockerMemo, firstMemo, probe>>
vars == <<env, overrides, removed, pc, call, outcome, platform, files, isDockerMemo, firstMemo,
          probe>>

NoCall == [impl |-> "none"]
NoProbe == [op |-> "none"]

FileSystems == [dockerenv : DockerEnvStates, cgroup : CGroupStates]

\* a Linux host outside a container, no class has asked yet
DockerInit ==
  /\ platform = "linux"
  /\ files = [dockerenv |-> "missing", cgroup |-> Str(<<"f", "o", "o">>)]
  /\ isDockerMemo = [c \in Classes |-> Undefined]
  /\ firstMemo = Undefined
  /\ probe = NoProbe

TypeOK ==
  /\ env \in [Keys -> {Undefined} \cup {Str(r) : r \in RawStrings}]
  /\ \A k \in Keys : overrides[k] \in {NotOverridden} \cup OverrideValues
  /\ removed \subseteq Keys
  /\ pc \in {"idle", "returned"}
  /\ platform \in Platforms
  /\ files \in FileSystems
  /\ isDockerMemo \in [Classes -> {Undefined, Bool(TRUE), Bool(FALSE)}]
  /\ firstMemo \in {Undefined, Bool(TRUE), Bool(FALSE)}

Init ==
  /\ env = [k \in Keys |-> Undefined]
  /\ overrides = [k \in Keys |-> NotOverridden]
  /\ removed = {}
  /\ pc = "idle"
  /\ call = NoCall
  /\ outcome = Ret(Undefined)
  /\ DockerInit

\* process.env[key] = raw, as the host (here the test-suite) does
SetEnv(key, raw) ==
  /\ pc = "idle"
  /\ env' = [env EXCEPT ![key] = Str(raw)]
  /\ UNCHANGED <<overrides, removed, pc, call, outcome>>
  /\ UNCHANGED dockerVars

\* delete process.env[key]
DeleteEnv(key) ==
  /\ pc = "idle"
  /\ env' = [env EXCEPT ![key] = Undefined]
  /\ UNCHANGED <<overrides, removed, pc, call, outcome>>
  /\ UNCHANGED dockerVars

overrideVariable(key, value) ==
  /\ pc = "idle"
  /\ overrides' = [overrides EXCEPT ![key] = value]
  /\ UNCHANGED <<env, removed, pc, call, outcome>>
  /\ UNCHANGED dockerVars

removeOverriddenVariable(key) ==
  /\ pc = "idle"
  /\ overrides' = [overrides EXCEPT ![key] = NotOverridden]
  /\ removed' = IF isVariableOverridden(overrides, key) THEN removed \cup {key} ELSE removed
  /\ UNCHANGED <<env, pc, call, outcome>>
  /\ UNCHANGED dockerVars

\* a call of getOrDefault(key, defaultValue, optionalType) on the array-aware source
GetOrDefaultCall(key, defaultValue, optionalType) ==
  /\ pc = "idle"
  /\ pc' = "returned"
  /\ call' = [impl |-> "array-aware", key |-> key, defaultValue |-> defaultValue,
              optionalType |-> optionalType]
  /\ outcome' = Resolve(overrides, key, getOrDefault(env[key], defaultValue, optionalType))
  /\ UNCHANGED <<env, overrides, removed>>
  /\ UNCHANGED dockerVars

\* a call of getOrDefault(key, defaultValue, optionalType) on src/environment/index.ts
LegacyGetOrDefaultCall(key, defaultValue, optionalType) ==
  /\ pc = "idle"
  /\ pc' = "returned"
  /\ call' = [impl |-> "legacy", key |-> key, defaultValue |-> defaultValue,
              optionalType |-> optionalType]
  /\ outcome' = Resolve(overrides, key, LegacyGetOrDefault(env[key], defaultValue, optionalType))
  /\ UNCHANGED <<env, overrides, removed>>
  /\ UNCHANGED dockerVars

\* process.platform replaced, as the test-suite does with Object.defineProperty
SetPlatform(platformName) ==
  /\ pc = "idle"
  /\ platform' = platformName
  /\ UNCHANGED <<files, isDockerMemo, firstMemo, probe, pc>>
  /\ UNCHANGED coercionVars

\* the host creates, removes or rewrites /.dockerenv and /proc/self/cgroup
WriteFiles(fileSystem) ==
  /\ pc = "idle"
  /\ files' = fileSystem
  /\ UNCHANGED <<platform, isDockerMemo, firstMemo, probe, pc>>
  /\ UNCHANGED coercionVars

\* what a probe call leaves for its caller: the result, the paths it read, and
\* the platform, file system and memo it ran against
ProbeRecord(op, class, ran) ==
  [op |-> op, class |-> class, result |-> ran.result, reads |-> ran.reads,
   platform |-> platform, files |-> files, memo |-> isDockerMemo, first |-> firstMemo]

\* class.hasDockerEnv()
HasDockerEnvCall(class) ==
  /\ pc = "idle"
  /\ pc' = "returned"
  /\ probe' = ProbeRecord("hasDockerEnv", class, hasDockerEnv(platform, files))
  /\ UNCHANGED <<platform, files, isDockerMemo, firstMemo>>
  /\ UNCHANGED coercionVars

\* class.hasDockerCGroup()
HasDockerCGroupCall(class) ==
  /\ pc = "idle"
  /\ pc' = "returned"
  /\ probe' = ProbeRecord("hasDockerCGroup", class, hasDockerCGroup(platform, files))
  /\ UNCHANGED <<platform, files, isDockerMemo, firstMemo>>
  /\ UNCHANGED coercionVars

\* class.isDocker(): this is the class, so the assignment to this._isDocker
\* makes an own property of that class
IsDockerCall(class) ==
  LET ran == isDocker(platform, files, MemoSeenBy(isDockerMemo, class))
  IN  /\ pc = "idle"
      /\ pc' = "returned"
      /\ probe' = ProbeRecord("isDocker", class, ran)
      /\ isDockerMemo' = IF ran.store = Undefined THEN isDockerMemo
                         ELSE [isDockerMemo EXCEPT ![class] = ran.store]
      /\ firstMemo' = IF firstMemo = Undefined THEN ran.store ELSE firstMemo
      /\ UNCHANGED <<platform, files>>
      /\ UNCHANGED coercionVars

\* the caller takes the result
Return ==
  /\ pc = "returned"
  /\ pc' = "idle"
  /\ call' = NoCall
  /\ outcome' = Ret(Undefined)
  /\ probe' = NoProbe
  /\ UNCHANGED <<env, overrides, removed, platform, files, isDockerMemo, firstMemo>>

Next ==
  \/ \E k \in Keys, r \in LifeRaws : SetEnv(k, r)
  \/ \E k \in Keys : DeleteEnv(k)
  \/ \E k \in Keys, v \in OverrideValues : overrideVariable(k, v)
  \/ \E k \in Keys : removeOverriddenVariable(k)
  \/ \E k \in Keys, d \in LifeDefaults, t \in LifeShapes : GetOrDefaultCall(k, d, t)
  \/ \E k \in Keys, d \in LifeDefaults, t \in LifeShapes : LegacyGetOrDefaultCall(k, d, t)
  \/ Return

\* the override life cycle: environment writes, overrides, calls
Spec == Init /\ [][Next]_vars

\* the coercion alone: one key holds any raw string, the other is unset, no
\* override is live, and one call is made with any default and declared type
InitCoerce ==
  /\ env \in {[k \in Keys |-> IF k = "FOO_BAR" THEN Str(r) ELSE Undefined] : r \in RawStrings}
  /\ overrides = [k \in Keys |-> NotOverridden]
  /\ removed = {}
  /\ pc = "idle"
  /\ call = NoCall
  /\ outcome = Ret(Undefined)
  /\ DockerInit

NextCoerce ==
  \/ \E k \in Keys, d \in DefaultValues, t \in Shapes : GetOrDefaultCall(k, d, t)
  \/ \E k \in Keys, d \in DefaultValues, t \in LegacyShapes : LegacyGetOrDefaultCall(k, d, t)

SpecCoerce == InitCoerce /\ [][NextCoerce]_vars

\* the container probes: the host changes platform and files between calls of
\* the three probes on Environment and on a class that extends it
NextDocker ==
  \/ \E p \in Platforms : SetPlatform(p)
  \/ \E f \in FileSystems : WriteFiles(f)
  \/ \E c \in Classes : HasDockerEnvCall(c)
  \/ \E c \in Classes : HasDockerCGroupCall(c)
  \/ \E c \in Classes : IsDockerCall(c)
  \/ Return

SpecDocker == Init /\ [][NextDocker]_vars

(* -------------------------------- claims ------------------------------- *)

Returned == pc = "returned"
\* a call has ended whose key had no live override, so the coercion decided it
Coerced == Returned /\ ~isVariableOverridden(overrides, call.key)
Raw == env[call.key]
Inferred(tag) == call.optionalType = NoShape /\ call.defaultValue.t = tag
Raised == IsThrow(outcome.v)

\* what the source that ran the call computes from the environment alone
FromEnvironment ==
  IF call.impl = "legacy"
    THEN LegacyGetOrDefault(Raw, call.defaultValue, call.optionalType)
    ELSE getOrDefault(Raw, call.defaultValue, call.optionalType)

DispatchOn(type) ==
  CASE type = "boolean" -> CaseBoolean(Raw, call.defaultValue)
    [] type = "number" -> CaseNumber(Raw, call.defaultValue)
    [] type = "bigint" -> CaseBigint(Raw, call.defaultValue)
    [] type = "regexp" -> CaseRegexp(Raw, call.defaultValue)
    [] type = "object" -> ParseOrRoundTrip(Raw, call.defaultValue)
    [] type = "array" -> SplitOrDefault(Raw, call.defaultValue)
    [] type \in EnvironmentVariableArrayType ->
         CaseArray(Raw, call.defaultValue, ElementType(type))
    [] OTHER -> RawOrDefault(Raw, call.defaultValue)

\* C2: a call that supplies optionalType is decided by the conversion of that
\* type, whatever the runtime type of its default
C2_DeclaredShapeVerbatim ==
  (Coerced /\ call.optionalType # NoShape) => outcome = DispatchOn(call.optionalType)

\* C3: with a null or undefined default and no optionalType the call never
\* raises; it returns the raw string when that is set and non-empty, and the
\* default otherwise
C3_NullishDefaultPassthrough ==
  (Coerced /\ call.optionalType = NoShape /\ IsNullish(call.defaultValue)) =>
    /\ ~Raised
    /\ outcome.v = IF Truthy(Raw) THEN Raw ELSE call.defaultValue

ScalarTypes == {"boolean", "number", "bigint"}

\* the scalar type of a call whose default is a value of that type, inferred
\* or declared
ScalarCall(type) ==
  /\ Coerced
  /\ type \in ScalarTypes
  /\ call.defaultValue.t = type
  /\ call.optionalType \in {NoShape, type}

\* the conversion of a raw string alone
ConvertRaw(type, raw) ==
  CASE type = "boolean" -> Bool(ToLowerCase(Trim(raw.s)) \in {<<"t", "r", "u", "e">>, <<"1">>})
    [] type = "number" -> parseFloat(raw)
    [] OTHER -> BigInt(raw)

\* C4: for boolean, number and bigint the raw string, when set, alone decides
\* the result; when it is unset the result is the default
C4_RawBeforeDefault ==
  \A type \in ScalarTypes :
    ScalarCall(type) =>
      outcome.v = IF Present(Raw) THEN ConvertRaw(type, Raw) ELSE call.defaultValue

\* C4 witness: a number call with the variable unset returns its default 12,
\* read back from the default's text
C4_Witness ==
  /\ ScalarCall("number")
  /\ ~Present(Raw)
  /\ call.defaultValue = Num(12)
  /\ outcome.v = Num(12)

\* C5: with a function default and no optionalType, a set and non-empty raw
\* string is returned without invoking the function; otherwise the function
\* is invoked exactly once and its result returned
C5_CallbackLazyOnce ==
  (Coerced /\ Inferred("function")) =>
    IF Truthy(Raw)
      THEN outcome = [v |-> Raw, calls |-> 0]
      ELSE outcome = [v |-> call.defaultValue.ret, calls |-> 1]

\* C5 witness: the variable is set to the empty string and the function was
\* invoked once
C5_Witness ==
  /\ Coerced
  /\ Inferred("function")
  /\ Raw = Str(<<>>)
  /\ outcome = [v |-> Num(7), calls |-> 1]

\* the number of commas of a string
Commas(s) == Cardinality({i \in 1..Len(s) : s[i] = ","})

\* C6: with an array default and no optionalType the call does not raise; it
\* returns the comma-separated segments of the raw string as strings when
\* the variable is set, and the default itself when it is unset
C6_ArrayDefaultSplits ==
  (Coerced /\ Inferred("array")) =>
    /\ ~Raised
    /\ IF Present(Raw)
         THEN /\ outcome.v.t = "array"
              /\ outcome.v.xs = [i \in 1..(Commas(Raw.s) + 1) |-> Str(Split(Raw.s)[i])]
         ELSE outcome.v = call.defaultValue

\* the element converter the claim names for an element type
ElementConverter(e, segment) ==
  CASE e = "boolean" -> toBoolean(segment, Undefined)
    [] e = "number" -> parseFloat(segment)
    [] e = "bigint" -> BigInt(segment)
    [] e = "object" -> JSONparse(segment)
    [] e = "regexp" -> NewRegExp(segment, Undefined)
    [] OTHER -> segment

\* C7: with optionalType array<element>, an unset variable returns the
\* default verbatim; a set one returns one element per comma-separated
\* segment (commas plus one), in order, each the element converter's value
\* for its segment, unless a converter raises, which ends the call
C7_ArrayOfElements ==
  (Coerced /\ call.optionalType \in EnvironmentVariableArrayType) =>
    IF ~Present(Raw) THEN outcome = Ret(call.defaultValue)
    ELSE LET e == ElementType(call.optionalType)
             n == Commas(Raw.s) + 1
             segments == Split(Raw.s)
             converted == [i \in 1..n |-> ElementConverter(e, Str(segments[i]))]
         IN  /\ Len(segments) = n
             /\ IF \E i \in 1..n : IsThrow(converted[i])
                  THEN Raised
                  ELSE outcome = Ret(Arr(converted))

\* C7 witness: raw "1,2,3" under array<number> gives the numbers 1, 2, 3
C7_Witness ==
  /\ Coerced
  /\ call.optionalType = "array<number>"
  /\ Raw = Str(<<"1", ",", "2", ",", "3">>)
  /\ outcome.v = Arr(<<Num(1), Num(2), Num(3)>>)

\* C8: with a RegExp default, inferred or declared 'regexp', a set variable
\* gives the pattern compiled from the raw string with the default's flags,
\* an unset one a pattern equal to the default
C8_PatternFromRawOrDefault ==
  (Coerced /\ call.defaultValue.t = "regexp" /\ call.optionalType \in {NoShape, "regexp"}) =>
    outcome.v = IF Present(Raw) THEN NewRegExp(Raw, Str(call.defaultValue.flags))
                ELSE call.defaultValue

\* C9: with a plain-object default, inferred or declared 'object', a set
\* variable gives the raw string parsed as JSON, an unset one a value equal
\* to the default
C9_ObjectParsedOrRoundTripped ==
  (Coerced /\ call.defaultValue.t = "object" /\ call.optionalType \in {NoShape, "object"}) =>
    outcome.v = IF Present(Raw) THEN JSONparse(Raw) ELSE call.defaultValue

\* the type a call is about: the declared one, otherwise the one its default shows
ShapeOfCall ==
  IF call.optionalType # NoShape THEN call.optionalType
  ELSE CASE call.defaultValue.t = "array" -> "array<string>"
         [] call.defaultValue.t \in {"undefined", "null"} -> "string"
         [] OTHER -> call.defaultValue.t

\* C10: a call raises only when its type is bigint, regexp, array<bigint> or
\* array<regexp>
C10_OnlyIntegerAndPatternRaise ==
  (Coerced /\ Raised) =>
    ShapeOfCall \in {"bigint", "regexp", "array<bigint>", "array<regexp>"}

\* a call decided as a string: a string default, inferred or declared
\* 'string', or no default with 'string' declared
StringCall ==
  /\ Coerced
  /\ \/ call.defaultValue.t = "string" /\ call.optionalType \in {NoShape, "string"}
     \/ call.defaultValue = Undefined /\ call.optionalType = "string"

\* C11: a string call returns the raw string when that is set and non-empty,
\* and its default otherwise: undefined when no default was supplied, also
\* when the raw string is set to the empty string
C11_StringRawOrDefault ==
  StringCall => outcome = Ret(IF Truthy(Raw) THEN Raw ELSE call.defaultValue)

\* C11 as stated: without a default, the raw value itself is returned, the
\* empty string when the variable is set to it
C11_AsStated ==
  StringCall =>
    outcome.v = IF Truthy(Raw) THEN Raw
                ELSE IF call.defaultValue # Undefined THEN call.defaultValue
                ELSE Raw

\* C11 witness: the variable is set to the empty string, no default is
\* supplied, and the call returns undefined
C11_Witness ==
  /\ StringCall
  /\ Raw = Str(<<>>)
  /\ call.defaultValue = Undefined
  /\ outcome.v = Undefined

\* the types a call can declare in optionalType
DeclaredShapes == EnvironmentVariableType \cup EnvironmentVariableArrayType

\* what a raw string alone is worth under a declared type
CoercedRaw(type, raw) ==
  CASE type \in ScalarTypes -> ConvertRaw(type, raw)
    [] type = "string" -> raw
    [] type = "object" -> JSONparse(raw)
    [] type = "regexp" -> NewRegExp(raw, Undefined)
    [] OTHER ->
         LET segments == Split(raw.s)
             converted == [i \in 1..Len(segments) |->
                             ElementConverter(ElementType(type), Str(segments[i]))]
         IN  IF \E i \in 1..Len(segments) : IsThrow(converted[i])
               THEN Throw("SyntaxError")
               ELSE Arr(converted)

\* the raw string is set and its conversion under the type succeeds (for
\* 'string': it is not empty)
WellFormed(type, raw) ==
  /\ Present(raw)
  /\ type = "string" => Truthy(raw)
  /\ ~IsThrow(CoercedRaw(type, raw))

\* C16: a call that declares a type, with a null or undefined default and a
\* set, well-formed raw string, does not raise and returns the raw string
\* converted under that type
C16_DeclaredShapeWithoutDefault ==
  (/\ Coerced
   /\ IsNullish(call.defaultValue)
   /\ call.optionalType \in DeclaredShapes
   /\ WellFormed(call.optionalType, Raw)) =>
    /\ ~Raised
    /\ outcome.v = CoercedRaw(call.optionalType, Raw)

\* C17: a call with a function default and the variable unset invokes the
\* function and does not return the function itself, whether or not it
\* declares a type
C17_FunctionDefaultInvoked ==
  (Coerced /\ call.defaultValue.t = "function" /\ ~Present(Raw)) =>
    /\ outcome.calls = 1
    /\ outcome.v # call.defaultValue

(* --------------------------- container claims -------------------------- *)

\* a probe call has just ended
Probed(op) == pc = "returned" /\ probe.op = op
ProbedAny == pc = "returned" /\ probe.op # "none"

\* the text holds the letters d o c k e r in a row
HoldsDocker(text) ==
  \E i \in 1..Len(text) :
    /\ i + 5 <= Len(text)
    /\ \A j \in 1..6 : text[i + j - 1] = Docker[j]

\* /proc/self/cgroup could be read and its text holds 'docker'
CGroupSaysDocker(fileSystem) ==
  ~IsThrow(fileSystem.cgroup) /\ HoldsDocker(fileSystem.cgroup.s)

\* C12: once an isDocker call on Linux has stored the memo, every later
\* isDocker call on Linux, on Environment or on a class that extends it,
\* returns the value first stored and reads no file
C12_MemoOncePerProcess ==
  (Probed("isDocker") /\ probe.platform = "linux" /\ probe.first # Undefined) =>
    /\ probe.result = probe.first
    /\ probe.reads = <<>>

\* C13: off Linux the three probes return false, read no file and leave the
\* memo of every class as it was, whatever the files hold and whatever the
\* memo held
C13_NonLinuxFalse ==
  (ProbedAny /\ probe.platform # "linux") =>
    /\ probe.result = Bool(FALSE)
    /\ probe.reads = <<>>
    /\ isDockerMemo = probe.memo

\* C13 witness: isDocker off Linux, with the memo true and /.dockerenv there,
\* has returned false
C13_Witness ==
  /\ Probed("isDocker")
  /\ probe.platform = "win32"
  /\ probe.memo["Environment"] = Bool(TRUE)
  /\ probe.files.dockerenv = "exists"
  /\ probe.result = Bool(FALSE)

\* C14: hasDockerEnv and hasDockerCGroup never throw; on Linux hasDockerCGroup
\* is true exactly when /proc/self/cgroup can be read and holds 'docker', and
\* hasDockerEnv is true exactly when /.dockerenv is there
C14_ProbesNeverThrow ==
  /\ (Probed("hasDockerEnv") \/ Probed("hasDockerCGroup")) => ~IsThrow(probe.result)
  /\ (Probed("hasDockerCGroup") /\ probe.platform = "linux") =>
       probe.result = Bool(CGroupSaysDocker(probe.files))
  /\ (Probed("hasDockerEnv") /\ probe.platform = "linux") =>
       probe.result = Bool(probe.files.dockerenv = "exists")

\* C14 witness: hasDockerCGroup on Linux, with /proc/self/cgroup missing, has
\* returned false
C14_Witness ==
  /\ Probed("hasDockerCGroup")
  /\ probe.platform = "linux"
  /\ probe.files.cgroup = Throw("ENOENT")
  /\ probe.result = Bool(FALSE)

\* C15: on Linux, with the memo unknown to the called class, isDocker returns
\* hasDockerEnv() or hasDockerCGroup() (the second read only when the first is
\* false) and stores that very value as the memo
C15_FirstCallProbesAndStores ==
  (Probed("isDocker") /\ probe.platform = "linux"
     /\ MemoSeenBy(probe.memo, probe.class) = Undefined) =>
    /\ probe.result =
         Bool(probe.files.dockerenv = "exists" \/ CGroupSaysDocker(probe.files))
    /\ probe.reads = IF probe.files.dockerenv = "exists" THEN <<DockerEnvPath>>
                     ELSE <<DockerEnvPath, CGroupPath>>
    /\ isDockerMemo[probe.class] = probe.result
    /\ MemoSeenBy(isDockerMemo, probe.class) = probe.result

\* C15 witness: a first isDocker on Linux, /.dockerenv missing and the cgroup
\* file naming docker, has returned true and stored true
C15_Witness ==
  /\ Probed("isDocker")
  /\ probe.platform = "linux"
  /\ MemoSeenBy(probe.memo, probe.class) = Undefined
  /\ probe.files.dockerenv = "missing"
  /\ CGroupSaysDocker(probe.files)
  /\ probe.result = Bool(TRUE)
  /\ isDockerMemo[probe.class] = Bool(TRUE)

=============================================================================
